---- MODULE Spec2Model ----
(***************************************************************************)
(* Voice pipeline orchestrator of src/main.cpp: setup(), loop() and the    *)
(* functions loop() calls (startRecording, stopRecording, processSpeech,   *)
(* queryGemini, textToSpeech, playAudio, setError, enterConfigMode).       *)
(*                                                                         *)
(* One step of the model is one call of setup(), one iteration of loop()   *)
(* (a "tick", with every call it makes), one /save request of the portal,  *)
(* or a change of an input pin between two iterations.                     *)
(*                                                                         *)
(* Time.  The code reads millis() and keeps three time stamps              *)
(* (stateEnterTime, recordStartTime, configButtonPressTime).  The model    *)
(* keeps the differences millis() - stamp, in milliseconds, saturated      *)
(* just above the largest threshold the code can still compare the stamp   *)
(* with before it sets the stamp anew (0 where no comparison can follow):  *)
(* the comparisons of the code are exact on the saturated values (the      *)
(* wrap of the 32 bit millisecond counter after 49 days is not modelled).  *)
(*                                                                         *)
(* The base64 functions (base64_encode, base64_decode,                     *)
(* calculateDecodedSize) are operators on sequences of bytes and of        *)
(* character codes; CodecSpec calls them on their own, on bounded inputs.  *)
(***************************************************************************)
EXTENDS Integers, Sequences, FiniteSets, TLC

\* ------------------------------------------------------------------------
\* Program constants (milliseconds unless said otherwise)
\* ------------------------------------------------------------------------
RECORD_DURATION == 5000
CONFIG_HOLD_MS == 3000
CONFIG_ENTRY_DELAY_MS == 500
JOIN_TIMEOUT_MS == 30000
CONNECTED_DWELL_MS == 2000
ERROR_DWELL_MS == 5000
DEBOUNCE_DELAY_MS == 50
LOOP_DELAY_MS == 10
HTTP_CODE_OK == 200

\* ------------------------------------------------------------------------
\* Bounds of the model
\* ------------------------------------------------------------------------
\* Number of loop iterations, per run, that last exactly LOOP_DELAY_MS plus
\* their blocking calls; every other iteration is also delayed by one of the
\* Latency values (scheduling, display refresh, radio).
MaxFastTicks == 2
\* The portal's handleClient iterations are counted up to this value.
PortalTickCap == 1

Latency == {990}
BootTimes == {1000, 2000}          \* millis() when setup() returns
WifiRunTimes == {1000}             \* wifiMulti.run() blocks
HttpTimes == {1000}                \* one HTTP exchange blocks
PlayTimes == {1000}                \* i2s_write blocks for the clip
I2sReadTimes == {0, RECORD_DURATION} \* i2s_read: driver error, or the clip
HttpErrCodes == {500}

Pins == {"LOW", "HIGH"}

States == {"STATE_INIT", "STATE_WIFI_CONFIG", "STATE_WIFI_CONNECTING",
           "STATE_WIFI_CONNECTED", "STATE_READY", "STATE_RECORDING",
           "STATE_PROCESSING_SPEECH", "STATE_QUERYING_AI",
           "STATE_PROCESSING_TTS", "STATE_PLAYING", "STATE_ERROR"}

VARIABLES
  pc,                     \* "setup": setup() not yet run; "loop": loop() runs
  currentState,
  errorMessage,           \* <<>> is the empty String
  audioBuffer,            \* "null" or "alloc" (a heap block)
  isPlayingAudio,
  configPin, buttonPin,   \* the levels of CONFIG_PIN and BUTTON_PIN
  configButtonWasPressed,
  sinceConfigPress,       \* millis() - configButtonPressTime
  sinceStateEnter,        \* millis() - stateEnterTime
  sinceRecordStart,       \* millis() - recordStartTime
  \* history variables (observers, read by no action's guard)
  log,                    \* events of the current cycle, since its trigger
  via,                    \* how enterConfigMode was last called
  enterConfigCalls,       \* calls of enterConfigMode since boot
  portalTicks,            \* loop iterations spent in the portal (saturated)
  sinceFault,             \* time since the last setError
  lastGap,                \* time between the last two accepted triggers
  sinceTrigger,           \* time since the last accepted trigger
  configHeld,             \* time CONFIG_PIN has been low without a break
  idleBeat,               \* parity of the iterations in a row that ran an
                          \* empty case or left the web fetch by its break
  fastTicks,
  sinceJoinStart,         \* time since connectToWiFi, while the join is tried
                          \* and as the join timeout left it (saturated)
  restartOf,              \* what restarted the device, until setup() has run:
                          \* "none", "portal" (POST /save) or "crash"
  \* the base64 functions, called on their own (CodecSpec)
  codecPc,                \* "off", or what has been called last
  codecFrom,              \* what the decoded text was: "encoded", "chunked", "text"
  data,                   \* the bytes given to base64_encode
  text,                   \* the characters (codes) given to base64_decode
  output                  \* the bytes base64_decode has written

progVars == <<pc, currentState, errorMessage, audioBuffer, isPlayingAudio,
              configButtonWasPressed, sinceConfigPress, sinceStateEnter,
              sinceRecordStart>>
pinVars == <<configPin, buttonPin>>
histVars == <<log, via, enterConfigCalls, portalTicks, sinceFault, lastGap,
              sinceTrigger, configHeld, idleBeat, fastTicks, sinceJoinStart,
              restartOf>>
codecVars == <<codecPc, codecFrom, data, text, output>>
vars == <<progVars, pinVars, histVars, codecVars>>

\* ------------------------------------------------------------------------
\* Saturated time differences
\* ------------------------------------------------------------------------
HeldCap == CONFIG_HOLD_MS + 1
FaultCap == ERROR_DWELL_MS + 1

\* configButtonPressTime is compared with the hold time while the input
\* was seen pressed, outside the portal.
PressCap(s, pressed) ==
  IF pressed /\ s # "STATE_WIFI_CONFIG" THEN CONFIG_HOLD_MS + 1 ELSE 0

\* recordStartTime is compared with the clip's duration while recording.
RecordCap(s) == IF s = "STATE_RECORDING" THEN RECORD_DURATION ELSE 0

\* The time since the accepted trigger is observed up to the clip's
\* duration while recording, and up to the debounce interval otherwise.
TriggerCap(s) == IF s = "STATE_RECORDING" THEN RECORD_DURATION ELSE 200

\* stateEnterTime is compared with the join timeout while joining, with
\* the dwells (the fault's is the longer) from the states that lead on to
\* them, and no more from the portal or a state whose case is empty.
StateEnterCap(s) ==
  CASE s = "STATE_WIFI_CONNECTING" -> JOIN_TIMEOUT_MS + 1
    [] s \in {"STATE_WIFI_CONNECTED", "STATE_READY", "STATE_RECORDING",
              "STATE_PLAYING", "STATE_ERROR"} -> ERROR_DWELL_MS + 1
    [] OTHER -> 0

After(t, d, cap) == IF t + d > cap THEN cap ELSE t + d

Ev(e, s, r) == [ev |-> e, stage |-> s, res |-> r]

\* ------------------------------------------------------------------------
\* Cloud responses: the HTTP status, and for a 200 what the body holds
\* ------------------------------------------------------------------------
\* "parse_err": deserializeJson fails.  "absent": valid JSON whose expected
\* field is missing or of another type.  "empty": the expected array is
\* there and the path [0]... below it yields null.  "ok": the path yields
\* the value.
Responses(bodies) ==
  {[code |-> c, body |-> "-"] : c \in HttpErrCodes}
    \cup {[code |-> HTTP_CODE_OK, body |-> b] : b \in bodies}
RecognizeResponses == Responses({"ok", "empty", "absent", "parse_err"})
InferResponses == Responses({"ok", "empty", "absent", "parse_err"})
SynthResponses == Responses({"ok", "absent", "parse_err"})

Outcome(r) == IF r.code # HTTP_CODE_OK THEN "http_err" ELSE r.body

\* What one iteration of loop() can meet while it runs processSpeech.
CloudInputs ==
  [sd : BOOLEAN, r1 : RecognizeResponses, r2 : InferResponses,
   r3 : SynthResponses, mem : {"alloc", "null"}, ub : {"crash", "continue"},
   h : HttpTimes, pt : PlayTimes]

\* A canonical input per case the code distinguishes: fields the code does
\* not reach are fixed, so that equal runs are not enumerated twice.
Reaches2(i) == i.r1.code = HTTP_CODE_OK /\ i.r1.body \in {"ok", "empty"}
Reaches3(i) == Reaches2(i) /\ i.r2.code = HTTP_CODE_OK /\ i.r2.body \in {"ok", "empty"}
ReachesPlay(i) == Reaches3(i) /\ i.r3.code = HTTP_CODE_OK /\ i.r3.body = "ok"
Canonical(i) ==
  /\ Reaches2(i) \/ i.r2 = [code |-> HTTP_CODE_OK, body |-> "ok"]
  /\ Reaches3(i) \/ i.r3 = [code |-> HTTP_CODE_OK, body |-> "ok"]
  /\ ReachesPlay(i) \/ i.mem = "alloc"
  /\ (ReachesPlay(i) /\ i.mem = "null") \/ i.ub = "continue"

CanonicalInputs == {i \in CloudInputs : Canonical(i)}

\* setError: errorMessage and STATE_ERROR (the display is not modelled).
SetError(msg) == [st |-> "STATE_ERROR", err |-> msg]

\* startRecording without the test of the allocation (a variant of the
\* definition below, as a slip of the code would have it).
StartRecordingUnchecked(ctx, m) == ctx @@ [buf |-> m]

\* startRecording, entered with ctx = [st, err]; m is what malloc returns.
\* Result: the new st and err, and the capture buffer.
StartRecording(ctx, m) ==
  IF m = "null"
  THEN SetError(<<"Memory Error">>) @@ [buf |-> m]
  ELSE ctx @@ [buf |-> m]

\* textToSpeech, entered with ctx = [st, err].  Result: the new st and err,
\* the events, the time spent, and whether the write through a null decode
\* buffer ended the program.
TextToSpeech(ctx, i) ==
  LET io == <<Ev("send", "Synthesize", "-"),
              Ev("recv", "Synthesize", Outcome(i.r3))>> IN
  IF i.r3.code = HTTP_CODE_OK
  THEN IF i.r3.body = "ok"
       THEN [st |-> "STATE_PLAYING", err |-> ctx.err,
             evs |-> io \o <<Ev("alloc", "decodedAudio", i.mem),
                             Ev("decode", "decodedAudio", i.mem)>>
                       \o (IF i.mem = "null" /\ i.ub = "crash" THEN <<>>
                           ELSE <<Ev("play", "decodedAudio", i.mem),
                                  Ev("free", "decodedAudio", i.mem)>>),
             dur |-> i.h + i.pt,
             crash |-> (i.mem = "null" /\ i.ub = "crash")]
       ELSE IF i.r3.body = "parse_err"
       THEN SetError(<<"JSON Parse Err">>)
              @@ [evs |-> io, dur |-> i.h, crash |-> FALSE]
       ELSE ctx @@ [evs |-> io, dur |-> i.h, crash |-> FALSE]
  ELSE SetError(<<"TTS API: ", i.r3.code>>)
         @@ [evs |-> io, dur |-> i.h, crash |-> FALSE]

\* queryGemini
QueryGemini(ctx, i) ==
  LET io == <<Ev("send", "Infer", "-"), Ev("recv", "Infer", Outcome(i.r2))>> IN
  IF i.r2.code = HTTP_CODE_OK
  THEN IF i.r2.body \in {"ok", "empty"}
       THEN LET r == TextToSpeech([st |-> "STATE_PROCESSING_TTS", err |-> ctx.err], i)
            IN [r EXCEPT !.evs = io \o @, !.dur = i.h + @]
       ELSE IF i.r2.body = "parse_err"
       THEN SetError(<<"JSON Parse Err">>)
              @@ [evs |-> io, dur |-> i.h, crash |-> FALSE]
       ELSE ctx @@ [evs |-> io, dur |-> i.h, crash |-> FALSE]
  ELSE SetError(<<"Gemini API: ", i.r2.code>>)
         @@ [evs |-> io, dur |-> i.h, crash |-> FALSE]

\* processSpeech without the release of the capture buffer (a variant of
\* the definition below, as a slip of the code would have it).
KeepAudioBuffer(buf) == buf

\* free(audioBuffer); audioBuffer = nullptr
FreeAudioBuffer(buf) == "null"

\* processSpeech, entered with ctx = [st, err] and the capture buffer buf.
\* Result as for textToSpeech, plus the capture buffer.
ProcessSpeech(ctx, buf, i) ==
  IF buf = "null"
  THEN SetError(<<"No audio data">>)
         @@ [evs |-> <<>>, dur |-> 0, crash |-> FALSE, buf |-> buf]
  ELSE
    LET pre == <<Ev("encode", "audioBuffer", buf), Ev("free", "audioBuffer", buf),
                 Ev("send", "Recognize", "-"),
                 Ev("recv", "Recognize", Outcome(i.r1))>>
        t == (IF i.sd THEN 0 ELSE 1000) + i.h
        r == IF i.r1.code = HTTP_CODE_OK
             THEN IF i.r1.body \in {"ok", "empty"}
                  THEN QueryGemini([st |-> "STATE_QUERYING_AI", err |-> ctx.err], i)
                  ELSE IF i.r1.body = "parse_err"
                  THEN SetError(<<"JSON Parse Err">>)
                         @@ [evs |-> <<>>, dur |-> 0, crash |-> FALSE]
                  ELSE SetError(<<"No transcription">>)
                         @@ [evs |-> <<>>, dur |-> 0, crash |-> FALSE]
             ELSE SetError(<<"Speech API: ", i.r1.code>>)
                    @@ [evs |-> <<>>, dur |-> 0, crash |-> FALSE]
    IN [r EXCEPT !.evs = pre \o @, !.dur = t + @] @@ [buf |-> FreeAudioBuffer(buf)]

\* ------------------------------------------------------------------------
\* Initial state: the globals as constructed, setup() not yet called
\* ------------------------------------------------------------------------
Init ==
  /\ pc = "setup"
  /\ currentState = "STATE_INIT"
  /\ errorMessage = <<>>
  /\ audioBuffer = "null"
  /\ isPlayingAudio = FALSE
  /\ configPin \in Pins
  /\ buttonPin \in Pins
  /\ configButtonWasPressed = FALSE
  /\ sinceConfigPress = 0
  /\ sinceStateEnter = 0
  /\ sinceRecordStart = 0
  /\ log = <<>>
  /\ via = "none"
  /\ enterConfigCalls = 0
  /\ portalTicks = 0
  /\ sinceFault = FaultCap
  /\ lastGap = 200
  /\ sinceTrigger = 200
  /\ configHeld = 0
  /\ idleBeat = 0
  /\ fastTicks = 0
  /\ sinceJoinStart = 0
  /\ restartOf = "none"
  /\ codecPc = "off"
  /\ codecFrom = "-"
  /\ data = <<>>
  /\ text = <<>>
  /\ output = <<>>

\* ------------------------------------------------------------------------
\* Pieces shared by the actions
\* ------------------------------------------------------------------------
\* Variants of the two definitions below, as a slip of the code would have
\* them: enterConfigMode without the change of state, and the long-press
\* test with the hold time doubled.
EnterConfigModeNoState(how) ==
  /\ currentState' = currentState
  /\ via' = how
  /\ enterConfigCalls' = IF enterConfigCalls < 2 THEN enterConfigCalls + 1
                         ELSE enterConfigCalls

LongPressDoubled ==
  /\ configPin = "LOW"
  /\ configButtonWasPressed
  /\ sinceConfigPress > 2 * CONFIG_HOLD_MS

\* enterConfigMode: the portal state (the access point and the HTTP
\* handlers it registers are the portal collaborator).
EnterConfigMode(how) ==
  /\ currentState' = "STATE_WIFI_CONFIG"
  /\ via' = how
  /\ enterConfigCalls' = IF enterConfigCalls < 2 THEN enterConfigCalls + 1
                         ELSE enterConfigCalls

\* loop() returns at once while the portal runs.
InPortal == currentState = "STATE_WIFI_CONFIG"

\* The long-press test at the head of loop().
LongPress ==
  /\ configPin = "LOW"
  /\ configButtonWasPressed
  /\ sinceConfigPress > CONFIG_HOLD_MS

\* The head of an iteration that does not end in the long-press branch,
\* followed by d milliseconds.
ConfigSample(d) ==
  /\ configButtonWasPressed' = (configPin = "LOW")
  /\ sinceConfigPress' =
       After(IF configPin = "LOW" /\ ~configButtonWasPressed THEN 0
             ELSE sinceConfigPress, d,
             PressCap(currentState', configButtonWasPressed'))

\* An iteration ends with delay(LOOP_DELAY_MS); lat is what it is held up
\* beyond that.
Lats == Latency \cup {0}
LatOk(lat) == lat # 0 \/ fastTicks < MaxFastTicks

Clock(d, lat) ==
  /\ configHeld' = IF configPin = "LOW" THEN After(configHeld, d, HeldCap) ELSE 0
  /\ fastTicks' = IF lat = 0 THEN fastTicks + 1 ELSE fastTicks
  /\ idleBeat' = 0

\* The same for an iteration that did nothing.
IdleClock(d, lat) ==
  /\ configHeld' = IF configPin = "LOW" THEN After(configHeld, d, HeldCap) ELSE 0
  /\ fastTicks' = IF lat = 0 THEN fastTicks + 1 ELSE fastTicks
  /\ idleBeat' = 1 - idleBeat

\* The time since the fault is kept while the orchestrator is in the fault
\* state, and the events of a cycle until it is back in STATE_READY.
FaultClock(d) ==
  sinceFault' = IF currentState' = "STATE_ERROR"
                THEN After(sinceFault, d, FaultCap) ELSE FaultCap
CycleLog(l) ==
  log' = IF currentState' = "STATE_READY" THEN <<>> ELSE l

\* d milliseconds in which no fault is raised and no trigger accepted.
Quiet(d) ==
  /\ FaultClock(d)
  /\ CycleLog(log)
  /\ sinceTrigger' = After(sinceTrigger, d, TriggerCap(currentState'))
  /\ UNCHANGED lastGap

\* d milliseconds in which stateEnterTime and recordStartTime are not set.
Elapse(d) ==
  /\ sinceStateEnter' = After(sinceStateEnter, d, StateEnterCap(currentState'))
  /\ sinceRecordStart' = After(sinceRecordStart, d, RecordCap(currentState'))

\* A tick of the switch: not in the portal, no long press; and the same
\* without the return of loop() from the portal.
SwitchInPortalToo(s) == pc = "loop" /\ ~LongPress /\ currentState \in s

Switch(s) == pc = "loop" /\ ~InPortal /\ ~LongPress /\ currentState \in s

\* ------------------------------------------------------------------------
\* The input pins, between two iterations
\* ------------------------------------------------------------------------
ConfigPinChanges ==
  /\ UNCHANGED codecVars
  /\ configPin' = IF configPin = "LOW" THEN "HIGH" ELSE "LOW"
  /\ configHeld' = 0
  /\ UNCHANGED <<progVars, buttonPin, log, via, enterConfigCalls, portalTicks,
                 sinceFault, lastGap, sinceTrigger, idleBeat, fastTicks,
                 sinceJoinStart, restartOf>>

ButtonPinChanges ==
  /\ UNCHANGED codecVars
  /\ buttonPin' = IF buttonPin = "LOW" THEN "HIGH" ELSE "LOW"
  /\ UNCHANGED <<progVars, configPin, histVars>>

\* ------------------------------------------------------------------------
\* setup()
\* ------------------------------------------------------------------------
Setup ==
  /\ UNCHANGED codecVars
  /\ pc = "setup"
  /\ pc' = "loop"
  /\ \E b \in BootTimes :
       /\ IF configPin = "LOW"
          THEN EnterConfigMode("boot")
          ELSE /\ currentState' = "STATE_WIFI_CONNECTING"
               /\ UNCHANGED <<via, enterConfigCalls>>
       \* the statics of loop() are 0: the differences are millis() itself
       /\ sinceConfigPress' = After(0, b, PressCap(currentState', FALSE))
       /\ sinceStateEnter' = After(0, b, StateEnterCap(currentState'))
       /\ sinceRecordStart' = After(0, b, RecordCap(currentState'))
       /\ configHeld' = IF configPin = "LOW" THEN After(configHeld, b, HeldCap) ELSE 0
  \* connectToWiFi is the last call of setup
  /\ sinceJoinStart' = 0
  /\ restartOf' = "none"
  /\ UNCHANGED <<errorMessage, audioBuffer, isPlayingAudio, configButtonWasPressed,
                 pinVars, log, portalTicks, sinceFault, lastGap, sinceTrigger,
                 idleBeat, fastTicks>>

\* A restart of the device: every global and static as constructed.
Restarted ==
  /\ pc' = "setup"
  /\ currentState' = "STATE_INIT"
  /\ errorMessage' = <<>>
  /\ audioBuffer' = "null"
  /\ isPlayingAudio' = FALSE
  /\ configButtonWasPressed' = FALSE
  /\ sinceConfigPress' = 0
  /\ sinceStateEnter' = 0
  /\ sinceRecordStart' = 0
  /\ log' = <<>>
  /\ via' = "none"
  /\ enterConfigCalls' = 0
  /\ portalTicks' = 0
  /\ sinceFault' = FaultCap
  /\ lastGap' = 200
  /\ sinceTrigger' = 200
  /\ idleBeat' = 0
  /\ sinceJoinStart' = 0

\* ------------------------------------------------------------------------
\* loop()
\* ------------------------------------------------------------------------
\* The portal: handleClient serves a request that leaves the state alone.
LoopPortal ==
  /\ UNCHANGED codecVars
  /\ pc = "loop" /\ InPortal
  /\ portalTicks' = IF portalTicks < PortalTickCap THEN portalTicks + 1 ELSE portalTicks
  /\ UNCHANGED <<progVars, pinVars, log, via, enterConfigCalls, sinceFault,
                 lastGap, sinceTrigger, configHeld, idleBeat, fastTicks,
                 sinceJoinStart, restartOf>>

\* The portal: handleClient serves POST /save, which ends in ESP.restart().
PortalSave ==
  /\ UNCHANGED codecVars
  /\ pc = "loop" /\ InPortal
  /\ Restarted
  /\ restartOf' = "portal"
  /\ UNCHANGED <<pinVars, configHeld, fastTicks>>

\* The long-press branch: delay(500), enterConfigMode, return.
LoopLongPress ==
  /\ UNCHANGED codecVars
  /\ pc = "loop" /\ ~InPortal /\ LongPress
  /\ EnterConfigMode("longpress")
  /\ sinceConfigPress' = After(sinceConfigPress, CONFIG_ENTRY_DELAY_MS,
                               PressCap(currentState', TRUE))
  /\ sinceStateEnter' = After(sinceStateEnter, CONFIG_ENTRY_DELAY_MS,
                              StateEnterCap(currentState'))
  /\ sinceRecordStart' = After(sinceRecordStart, CONFIG_ENTRY_DELAY_MS,
                               RecordCap(currentState'))
  /\ idleBeat' = 0
  /\ sinceJoinStart' = 0
  /\ sinceTrigger' = After(sinceTrigger, CONFIG_ENTRY_DELAY_MS,
                           TriggerCap(currentState'))
  \* configHeld keeps the hold as it was when the branch was taken
  /\ UNCHANGED <<pc, errorMessage, audioBuffer, isPlayingAudio,
                 configButtonWasPressed, pinVars, log, portalTicks, sinceFault,
                 lastGap, configHeld, fastTicks, restartOf>>

\* case STATE_WIFI_CONNECTING
LoopConnecting ==
  /\ UNCHANGED codecVars
  /\ Switch({"STATE_WIFI_CONNECTING"})
  /\ \E w \in WifiRunTimes, joined \in BOOLEAN, lat \in Lats :
       LET d == w + LOOP_DELAY_MS + lat IN
       /\ LatOk(lat)
       /\ IF joined
          THEN /\ currentState' = "STATE_WIFI_CONNECTED"
               /\ sinceStateEnter' = After(0, LOOP_DELAY_MS + lat,
                                           StateEnterCap(currentState'))
               /\ UNCHANGED <<via, enterConfigCalls>>
               /\ sinceJoinStart' = 0
          ELSE /\ IF sinceStateEnter + w > JOIN_TIMEOUT_MS
                  THEN /\ EnterConfigMode("timeout")
                       /\ sinceJoinStart' = After(sinceJoinStart, w, JOIN_TIMEOUT_MS)
                  ELSE /\ UNCHANGED <<currentState, via, enterConfigCalls>>
                       /\ sinceJoinStart' = After(sinceJoinStart, d, JOIN_TIMEOUT_MS)
               /\ sinceStateEnter' = After(sinceStateEnter, d,
                                           StateEnterCap(currentState'))
       /\ ConfigSample(d) /\ Clock(d, lat) /\ Quiet(d)
       /\ sinceRecordStart' = After(sinceRecordStart, d, RecordCap(currentState'))
  /\ UNCHANGED <<pc, errorMessage, audioBuffer, isPlayingAudio, pinVars, portalTicks,
                 restartOf>>

\* case STATE_WIFI_CONNECTED: after the dwell, the web audio sample is
\* fetched and played; two of its failures leave the switch by break.
WebFetchOutcomes == {"http_err", "no_stream", "no_mem", "played"}

LoopConnected ==
  /\ UNCHANGED codecVars
  /\ Switch({"STATE_WIFI_CONNECTED"})
  /\ \E f \in WebFetchOutcomes, h \in HttpTimes, pt \in PlayTimes, lat \in Lats :
       LET dwell == sinceStateEnter > CONNECTED_DWELL_MS
           d == (IF dwell THEN h + (IF f = "played" THEN pt ELSE 0) ELSE 0)
                  + LOOP_DELAY_MS + lat
       IN
       /\ LatOk(lat)
       /\ dwell \/ f = "played"
       /\ currentState' = IF dwell /\ f \in {"http_err", "played"}
                          THEN "STATE_READY" ELSE currentState
       /\ Elapse(d) /\ ConfigSample(d) /\ Quiet(d)
       /\ IF dwell /\ f \in {"no_stream", "no_mem"}
          THEN IdleClock(d, lat) ELSE Clock(d, lat)
  /\ UNCHANGED <<pc, errorMessage, audioBuffer, isPlayingAudio, pinVars, via,
                 enterConfigCalls, portalTicks, sinceJoinStart,
                 restartOf>>

\* case STATE_READY: the capture input, read twice DEBOUNCE_DELAY_MS apart;
\* then startRecording.
LoopReady ==
  /\ UNCHANGED codecVars
  /\ Switch({"STATE_READY"})
  /\ \E second \in Pins, m \in {"alloc", "null"}, r \in I2sReadTimes, lat \in Lats :
       LET first == buttonPin = "LOW"
           accepted == first /\ second = "LOW"
           \* time after recordStartTime = millis()
           rest == (IF accepted /\ m = "alloc" THEN r ELSE 0) + LOOP_DELAY_MS + lat
           d == (IF first THEN DEBOUNCE_DELAY_MS ELSE 0) + rest
       IN
       /\ LatOk(lat)
       /\ first \/ second = buttonPin
       /\ accepted \/ m = "alloc"
       /\ (accepted /\ m = "alloc") \/ r = 0
       /\ buttonPin' = second
       /\ IF accepted
          THEN /\ LET started == StartRecording([st |-> "STATE_RECORDING",
                                                 err |-> errorMessage], m)
                  IN /\ currentState' = started.st
                     /\ errorMessage' = started.err
                     /\ audioBuffer' = started.buf
                     /\ sinceFault' = IF started.st = "STATE_ERROR"
                                      THEN After(0, rest, FaultCap) ELSE FaultCap
               /\ sinceRecordStart' = After(0, rest, RecordCap(currentState'))
               /\ lastGap' = After(sinceTrigger, DEBOUNCE_DELAY_MS, 200)
               /\ sinceTrigger' = After(0, rest, TriggerCap(currentState'))
               /\ log' = <<Ev("trigger", "-", "-"), Ev("alloc", "audioBuffer", m)>>
                           \o (IF m = "alloc"
                               THEN <<Ev("read", "audioBuffer", m)>> ELSE <<>>)
          ELSE /\ UNCHANGED <<currentState, errorMessage, audioBuffer>>
               /\ sinceRecordStart' = After(sinceRecordStart, d, RecordCap(currentState'))
               /\ Quiet(d)
       /\ sinceStateEnter' = After(sinceStateEnter, d, StateEnterCap(currentState'))
       /\ ConfigSample(d) /\ Clock(d, lat)
  /\ UNCHANGED <<pc, isPlayingAudio, configPin, via, enterConfigCalls, portalTicks,
                 sinceJoinStart, restartOf>>

\* The test of case STATE_RECORDING, and a variation of it that compares
\* with the other stamp of loop().
ClipOverSinceStateEnter == sinceStateEnter >= RECORD_DURATION

ClipOver == sinceRecordStart >= RECORD_DURATION

\* case STATE_RECORDING: once the clip's time is over, stopRecording and
\* processSpeech with all it calls.
LoopRecording ==
  /\ UNCHANGED codecVars
  /\ Switch({"STATE_RECORDING"})
  /\ \E lat \in Lats :
       /\ LatOk(lat)
       /\ IF ClipOver
          THEN \E i \in CanonicalInputs :
                 LET r == ProcessSpeech([st |-> "STATE_PROCESSING_SPEECH",
                                         err |-> errorMessage], audioBuffer, i)
                     d == r.dur + LOOP_DELAY_MS + lat
                 IN
                 IF r.crash
                 THEN /\ Restarted
                      /\ restartOf' = "crash"
                      /\ UNCHANGED <<pinVars, configHeld, fastTicks>>
                 ELSE /\ currentState' = r.st
                      /\ errorMessage' = r.err
                      /\ audioBuffer' = r.buf
                      /\ log' = log \o <<Ev("read", "audioBuffer", audioBuffer)>> \o r.evs
                      /\ sinceFault' = IF r.st = "STATE_ERROR"
                                       THEN After(0, LOOP_DELAY_MS + lat, FaultCap)
                                       ELSE FaultCap
                      /\ sinceTrigger' = After(sinceTrigger, d,
                                              TriggerCap(currentState'))
                      /\ Elapse(d) /\ ConfigSample(d) /\ Clock(d, lat)
                      /\ UNCHANGED <<pc, isPlayingAudio, pinVars, via,
                                     enterConfigCalls, portalTicks, lastGap,
                                     sinceJoinStart, restartOf>>
          ELSE LET d == LOOP_DELAY_MS + lat IN
               /\ UNCHANGED <<pc, currentState, errorMessage, audioBuffer,
                              isPlayingAudio, pinVars, via, enterConfigCalls,
                              portalTicks, sinceJoinStart,
                              restartOf>>
               /\ Elapse(d) /\ ConfigSample(d) /\ Clock(d, lat) /\ Quiet(d)

\* case STATE_INIT, STATE_PROCESSING_SPEECH, STATE_QUERYING_AI,
\* STATE_PROCESSING_TTS: break.  (The switch has no case for
\* STATE_WIFI_CONFIG either.)
LoopIdle ==
  /\ UNCHANGED codecVars
  /\ Switch({"STATE_INIT", "STATE_PROCESSING_SPEECH", "STATE_QUERYING_AI",
             "STATE_PROCESSING_TTS", "STATE_WIFI_CONFIG"})
  /\ UNCHANGED <<pc, currentState, errorMessage, audioBuffer, isPlayingAudio,
                 pinVars, via, enterConfigCalls, portalTicks, sinceJoinStart,
                 restartOf>>
  /\ \E lat \in Lats :
       LET d == LOOP_DELAY_MS + lat IN
       /\ LatOk(lat)
       /\ Elapse(d) /\ ConfigSample(d) /\ IdleClock(d, lat) /\ Quiet(d)

\* case STATE_PLAYING
LoopPlaying ==
  /\ UNCHANGED codecVars
  /\ Switch({"STATE_PLAYING"})
  /\ \E lat \in Lats :
       LET d == LOOP_DELAY_MS + lat IN
       /\ LatOk(lat)
       /\ currentState' = IF ~isPlayingAudio THEN "STATE_READY" ELSE currentState
       /\ Elapse(d) /\ ConfigSample(d) /\ Clock(d, lat) /\ Quiet(d)
  /\ UNCHANGED <<pc, errorMessage, audioBuffer, isPlayingAudio, pinVars, via,
                 enterConfigCalls, portalTicks, sinceJoinStart,
                 restartOf>>

\* case STATE_ERROR
LoopError ==
  /\ UNCHANGED codecVars
  /\ Switch({"STATE_ERROR"})
  /\ \E lat \in Lats :
       LET d == LOOP_DELAY_MS + lat IN
       /\ LatOk(lat)
       /\ currentState' = IF sinceStateEnter > ERROR_DWELL_MS
                          THEN "STATE_READY" ELSE currentState
       /\ Elapse(d) /\ ConfigSample(d) /\ Clock(d, lat) /\ Quiet(d)
  /\ UNCHANGED <<pc, errorMessage, audioBuffer, isPlayingAudio, pinVars, via,
                 enterConfigCalls, portalTicks, sinceJoinStart,
                 restartOf>>

Loop ==
  \/ LoopPortal
  \/ PortalSave
  \/ LoopLongPress
  \/ LoopConnecting
  \/ LoopConnected
  \/ LoopReady
  \/ LoopRecording
  \/ LoopIdle
  \/ LoopPlaying
  \/ LoopError

Next ==
  \/ Setup
  \/ ConfigPinChanges
  \/ ButtonPinChanges
  \/ LoopPortal
  \/ PortalSave
  \/ LoopLongPress
  \/ LoopConnecting
  \/ LoopConnected
  \/ LoopReady
  \/ LoopRecording
  \/ LoopIdle
  \/ LoopPlaying
  \/ LoopError

Spec == Init /\ [][Next]_vars

\* loop() is called again and again once setup() has returned.
FairSpec == Spec /\ WF_vars(Setup) /\ WF_vars(Loop)

\* ------------------------------------------------------------------------
\* The base64 functions
\* ------------------------------------------------------------------------
\* Characters are their codes, bytes are 0..255.
PadChar == 61
MaxDataLen == 4
MaxTextLen == 5

\* Bytes and characters the inputs are made of: bytes with the high and the
\* low bits set and clear; 'T', 'Q', 'W', the pad and a line feed.
ByteSamples == {0, 77, 161, 255}
TextChars == {84, 81, 87, PadChar, 10}

SeqsUpTo(S, n) == UNION {[1..k -> S] : k \in 0..n}

\* base64_chars: 'A'..'Z', 'a'..'z', '0'..'9', '+', '/'
Base64Chars ==
  [k \in 1..64 |-> IF k <= 26 THEN 64 + k
                   ELSE IF k <= 52 THEN 70 + k
                   ELSE IF k <= 62 THEN k - 5
                   ELSE IF k = 63 THEN 43 ELSE 47]

\* isBase64: isalnum(c) || c == '+' || c == '/'
IsBase64(c) ==
  \/ c \in 48..57 \/ c \in 65..90 \/ c \in 97..122
  \/ c = 43 \/ c = 47

\* strchr(base64_chars, c) - base64_chars, for the characters the decoder
\* looks up: one of the alphabet, or the 0 it fills a short group with,
\* which strchr finds at the terminator of base64_chars.
IndexOf(c) ==
  IF c = 0 THEN 64 ELSE (CHOOSE k \in 0..63 : Base64Chars[k + 1] = c)

\* The bytes a group of four looked-up values gives (unsigned char).
Bytes3(a) ==
  <<(a[1] * 4 + (a[2] \div 16)) % 256,
    (a[2] * 16 + (a[3] \div 4)) % 256,
    (a[3] * 64 + a[4]) % 256>>

\* The values a group of three bytes gives.
Sextets4(b) ==
  <<(b[1] - (b[1] % 4)) \div 4,
    (b[1] % 4) * 16 + ((b[2] - (b[2] % 16)) \div 16),
    (b[2] % 16) * 4 + ((b[3] - (b[3] % 64)) \div 64),
    b[3] % 64>>

\* The end of base64_decode with i characters left in char_array_4.
DecodeRest(c4) ==
  LET filled == [k \in 1..4 |-> IF k <= Len(c4) THEN c4[k] ELSE 0]
      b == Bytes3([k \in 1..4 |-> IndexOf(filled[k])])
  IN IF Len(c4) = 0 THEN <<>> ELSE SubSeq(b, 1, Len(c4) - 1)

\* The while loop of base64_decode at character in (from 1), with c4 the
\* characters of the group begun and out the bytes written.
RECURSIVE DecodeLoop(_, _, _, _)
DecodeLoop(input, in, c4, out) ==
  IF in <= Len(input) /\ input[in] # PadChar /\ IsBase64(input[in])
  THEN LET g == Append(c4, input[in]) IN
       IF Len(g) = 4
       THEN DecodeLoop(input, in + 1, <<>>,
                       out \o Bytes3([k \in 1..4 |-> IndexOf(g[k])]))
       ELSE DecodeLoop(input, in + 1, g, out)
  ELSE out \o DecodeRest(c4)

\* base64_decode without the bytes of a short last group (a variant of the
\* definition below, as a slip of the code would have it).
RECURSIVE DecodeWholeGroups(_, _)
DecodeWholeGroups(input, in) ==
  IF in + 3 <= Len(input) /\ \A k \in in..(in + 3) : IsBase64(input[k])
  THEN Bytes3([k \in 1..4 |-> IndexOf(input[in + k - 1])])
         \o DecodeWholeGroups(input, in + 4)
  ELSE <<>>

Base64DecodeNoRest(input) == DecodeWholeGroups(input, 1)

\* base64_decode: the bytes written to output (their number is returned).
Base64Decode(input) == DecodeLoop(input, 1, <<>>, <<>>)

\* The end of base64_encode with i bytes left in char_array_3.
EncodeRest(c3) ==
  LET filled == [k \in 1..3 |-> IF k <= Len(c3) THEN c3[k] ELSE 0]
      v == Sextets4(filled)
  IN IF Len(c3) = 0 THEN <<>>
     ELSE [k \in 1..(Len(c3) + 1) |-> Base64Chars[v[k] + 1]]
            \o [k \in 1..(3 - Len(c3)) |-> PadChar]

\* The while loop of base64_encode at byte in (from 1).
RECURSIVE EncodeLoop(_, _, _, _)
EncodeLoop(bytes, in, c3, out) ==
  IF in <= Len(bytes)
  THEN LET g == Append(c3, bytes[in]) IN
       IF Len(g) = 3
       THEN EncodeLoop(bytes, in + 1, <<>>,
                       out \o [k \in 1..4 |-> Base64Chars[Sextets4(g)[k] + 1]])
       ELSE EncodeLoop(bytes, in + 1, g, out)
  ELSE out \o EncodeRest(c3)

\* base64_encode
Base64Encode(bytes) == EncodeLoop(bytes, 1, <<>>, <<>>)

\* A size_t of the target (32 bits, unsigned): n modulo 2^32, as its high
\* and low 16 bits.
Size32(n) ==
  LET lo == n % 65536
  IN <<((n - lo) \div 65536) % 65536, lo>>

\* calculateDecodedSize
CalculateDecodedSize(s) ==
  LET length == Len(s)
      p1 == IF length > 0 /\ s[length] = PadChar THEN 1 ELSE 0
      p2 == IF length > 1 /\ s[length - 1] = PadChar THEN 1 ELSE 0
  IN Size32(((length * 3) \div 4) - (p1 + p2))

\* The functions called on their own: on bytes, encoded in one call or in
\* two calls on the two parts of a split, the text then decoded; or on a
\* text, decoded.  The orchestrator is left as constructed.
CodecInit ==
  /\ pc = "setup"
  /\ currentState = "STATE_INIT"
  /\ errorMessage = <<>>
  /\ audioBuffer = "null"
  /\ isPlayingAudio = FALSE
  /\ configPin = "HIGH"
  /\ buttonPin = "HIGH"
  /\ configButtonWasPressed = FALSE
  /\ sinceConfigPress = 0
  /\ sinceStateEnter = 0
  /\ sinceRecordStart = 0
  /\ log = <<>>
  /\ via = "none"
  /\ enterConfigCalls = 0
  /\ portalTicks = 0
  /\ sinceFault = FaultCap
  /\ lastGap = 200
  /\ sinceTrigger = 200
  /\ configHeld = 0
  /\ idleBeat = 0
  /\ fastTicks = 0
  /\ sinceJoinStart = 0
  /\ restartOf = "none"
  /\ codecFrom = "-"
  /\ output = <<>>
  /\ \/ /\ codecPc = "bytes"
        /\ data \in SeqsUpTo(ByteSamples, MaxDataLen)
        /\ text = <<>>
     \/ /\ codecPc = "text"
        /\ data = <<>>
        /\ text \in SeqsUpTo(TextChars, MaxTextLen)

CodecEncode ==
  /\ codecPc = "bytes"
  /\ text' = Base64Encode(data)
  /\ codecPc' = "encoded"
  /\ UNCHANGED <<progVars, pinVars, histVars, codecFrom, data, output>>

CodecEncodeChunks ==
  /\ codecPc = "bytes"
  /\ \E n \in 0..Len(data) :
       text' = Base64Encode(SubSeq(data, 1, n))
                 \o Base64Encode(SubSeq(data, n + 1, Len(data)))
  /\ codecPc' = "chunked"
  /\ UNCHANGED <<progVars, pinVars, histVars, codecFrom, data, output>>

CodecDecode ==
  /\ codecPc \in {"encoded", "chunked", "text"}
  /\ output' = Base64Decode(text)
  /\ codecFrom' = codecPc
  /\ codecPc' = "decoded"
  /\ UNCHANGED <<progVars, pinVars, histVars, data, text>>

CodecNext ==
  \/ CodecEncode
  \/ CodecEncodeChunks
  \/ CodecDecode

CodecSpec == CodecInit /\ [][CodecNext]_vars

\* ------------------------------------------------------------------------
\* Observations on the events of a cycle
\* ------------------------------------------------------------------------
FailureOutcomes == {"http_err", "parse_err", "absent"}

\* A cloud stage of the cycle has answered with a failure outcome.
StageFailed(l) ==
  \E k \in 1..Len(l) : l[k].ev = "recv" /\ l[k].res \in FailureOutcomes

\* An invocation: a request sent to a stage, or the reply played.
IsInvocation(e) ==
  e.ev = "send" \/ (e.ev = "play" /\ e.stage = "decodedAudio")

\* Event k of l is preceded by the answer "ok" of stage s.
AfterOk(l, k, s) ==
  \E j \in 1..(k - 1) : l[j] = Ev("recv", s, "ok")

\* Requests sent and not yet answered among the first k events of l.
Outstanding(l, k) ==
  Cardinality({j \in 1..k : l[j].ev = "send"})
    - Cardinality({j \in 1..k : l[j].ev = "recv"})

Sends(l, s) == Cardinality({k \in 1..Len(l) : l[k] = Ev("send", s, "-")})

\* The device has restarted and setup() has not run yet.
Rebooting == pc = "setup"

\* The step is an iteration of loop(): no other step is taken once setup()
\* has returned, but the changes of the input pins.
Tick == pc = "loop" /\ ~ConfigPinChanges /\ ~ButtonPinChanges

\* ------------------------------------------------------------------------
\* Claims
\* ------------------------------------------------------------------------
\* C1: whenever a stage of the pipeline (recognize, infer, synthesize)
\* answers with a failure outcome (HTTP status other than 200, JSON parse
\* error, valid JSON without the expected field), the tick that made the
\* call ends with currentState = STATE_ERROR and errorMessage not empty.
C1_StageFailureEndsInFault ==
  [][(~StageFailed(log) /\ StageFailed(log'))
       => (currentState' = "STATE_ERROR" /\ errorMessage' # <<>>)]_vars

\* C2: a tick of the fault state sampled less than 5000 ms after setError
\* leaves the orchestrator in STATE_ERROR, and a tick sampled 5000 ms or
\* more after setError leaves it in STATE_READY (no long press involved).
C2_FaultDwellFromEntry ==
  [][LoopError => (currentState' = IF sinceFault < ERROR_DWELL_MS
                                   THEN "STATE_ERROR" ELSE "STATE_READY")]_vars

\* C3: under continued ticks, a cycle that has left Ready for Capturing is
\* eventually back in STATE_READY, unless a long press has taken it to the
\* portal (or the device has restarted).
C3_CycleReturnsToReady ==
  (currentState = "STATE_RECORDING")
    ~> (currentState \in {"STATE_READY", "STATE_WIFI_CONFIG"} \/ Rebooting)

\* C4: in the events of a cycle, infer is invoked only after recognize
\* answered with a transcript, synthesize only after infer answered with a
\* text, the reply is played only after synthesize answered with audio,
\* and never is more than one request outstanding.
C4_StagesInOrder ==
  \A k \in 1..Len(log) :
    /\ log[k] = Ev("send", "Infer", "-") => AfterOk(log, k, "Recognize")
    /\ log[k] = Ev("send", "Synthesize", "-") => AfterOk(log, k, "Infer")
    /\ (log[k].ev = "play" /\ log[k].stage = "decodedAudio")
         => AfterOk(log, k, "Synthesize")
    /\ Outstanding(log, k) \in {0, 1}

\* C5: in the events of a cycle each stage is invoked at most once, and
\* after an answer other than a validated success nothing more is invoked.
C5_NoRetryNothingAfterFailure ==
  /\ \A s \in {"Recognize", "Infer", "Synthesize"} : Sends(log, s) <= 1
  /\ \A k \in 1..Len(log) :
       (log[k].ev = "recv" /\ log[k].res # "ok")
         => \A j \in (k + 1)..Len(log) : ~IsInvocation(log[j])

\* C6: two accepted capture triggers are at least 200 ms apart.
C6_TriggersDebounced == lastGap >= 200

\* C7 (as stated): every tick outside the portal that samples the config
\* input asserted, the input having been asserted without a break for at
\* least 3000 ms, enters the portal.
C7_HeldAtLeast3sEntersPortal ==
  [][(Tick /\ ~InPortal /\ configPin = "LOW" /\ configHeld >= CONFIG_HOLD_MS)
       => currentState' = "STATE_WIFI_CONFIG"]_vars

\* C7 (amended): every tick outside the portal that samples the config
\* input asserted, the input having been asserted without a break for more
\* than 3000 ms counted from the first tick that sampled it, enters the
\* portal by the long-press path, whatever the state and the work of the
\* cycle in progress.
C7_HeldOver3sEntersPortal ==
  [][(Tick /\ ~InPortal /\ configPin = "LOW" /\ configHeld > CONFIG_HOLD_MS)
       => (currentState' = "STATE_WIFI_CONFIG" /\ via' = "longpress")]_vars

\* A long press has forced the portal in the middle of a cycle.
C7_Witness ==
  /\ currentState = "STATE_WIFI_CONFIG" /\ via = "longpress"
  /\ configPin = "LOW" /\ configHeld > CONFIG_HOLD_MS
  /\ log # <<>>

\* C8: the long-press path is taken only when the config input has been
\* asserted without a break for the 3000 ms before.
C8_LongPressOnlyAfterUnbrokenHold ==
  [][LoopLongPress => configHeld >= CONFIG_HOLD_MS]_vars

\* C9: a tick of the join state that finds the network not joined after
\* the join timeout calls enterConfigMode and ends in the portal; from
\* then on, until a restart, enterConfigMode is not called again and the
\* state stays the portal's.
C9_JoinTimeoutEntersPortalOnce ==
  [][/\ (LoopConnecting /\ sinceStateEnter > JOIN_TIMEOUT_MS
           /\ currentState' # "STATE_WIFI_CONNECTED")
          => (currentState' = "STATE_WIFI_CONFIG" /\ via' = "timeout"
                /\ enterConfigCalls' = 1)
     /\ (via = "timeout" /\ pc' = "loop")
          => (currentState' = "STATE_WIFI_CONFIG" /\ via' = "timeout"
                /\ enterConfigCalls' = 1)]_vars

\* The join has timed out and loop() has run again in the portal.
C9_Witness ==
  /\ via = "timeout" /\ currentState = "STATE_WIFI_CONFIG"
  /\ enterConfigCalls = 1 /\ portalTicks >= 1

\* C10: under continued ticks, the orchestrator in STATE_WIFI_CONNECTED is
\* eventually in STATE_READY, whatever the web audio fetch does (unless a
\* long press has taken it to the portal).
C10_NetworkReadyReachesReady ==
  (currentState = "STATE_WIFI_CONNECTED")
    ~> (currentState \in {"STATE_READY", "STATE_WIFI_CONFIG"})

\* C11: when the allocation of the capture buffer has failed, the tick has
\* ended in STATE_ERROR with errorMessage set, and until the cycle is over
\* the orchestrator is not capturing and no request is sent to a stage.
C11_AllocFailureFaults ==
  (\E k \in 1..Len(log) : log[k] = Ev("alloc", "audioBuffer", "null"))
    => /\ currentState \in {"STATE_ERROR", "STATE_WIFI_CONFIG"}
       /\ errorMessage = <<"Memory Error">>
       /\ audioBuffer = "null"
       /\ \A k \in 1..Len(log) : log[k].ev \notin {"send", "read"}

\* The capture buffer could not be allocated and the fault is shown.
C11_Witness ==
  /\ log = <<Ev("trigger", "-", "-"), Ev("alloc", "audioBuffer", "null")>>
  /\ currentState = "STATE_ERROR"
  /\ errorMessage = <<"Memory Error">>

\* C12: in the events of a cycle, after recognize has answered 200 with
\* valid JSON whose results array is absent or empty, the orchestrator is
\* in the fault state (or taken from it to the portal) with the message
\* "No transcription", and infer has not been invoked.
C12_NoTranscriptionFaults ==
  (\E k \in 1..Len(log) :
      log[k].ev = "recv" /\ log[k].stage = "Recognize"
        /\ log[k].res \in {"absent", "empty"})
    => /\ currentState \in {"STATE_ERROR", "STATE_WIFI_CONFIG"}
       /\ errorMessage = <<"No transcription">>
       /\ Sends(log, "Infer") = 0

\* C13: a capture buffer is allocated only while the orchestrator is
\* capturing (or was taken from there to the portal); so in every state
\* that can accept a trigger audioBuffer is null, and startRecording never
\* allocates over a buffer still allocated.
C13_BufferExclusive ==
  /\ audioBuffer = "alloc"
       => currentState \in {"STATE_RECORDING", "STATE_WIFI_CONFIG"}
  /\ currentState = "STATE_READY" => audioBuffer = "null"

\* A capture is under way after an earlier cycle, which had its own
\* buffer, has ended in a fault.
C13_Witness ==
  /\ currentState = "STATE_RECORDING"
  /\ audioBuffer = "alloc"
  /\ errorMessage = <<"Speech API: ", 500>>

\* C14: the capture buffer is released on every path: it is allocated only
\* while the orchestrator is capturing, and not after the forced exit to
\* the portal.
C14_BufferReleasedOnEveryPath ==
  audioBuffer = "alloc" => currentState = "STATE_RECORDING"

\* C15: in STATE_READY errorMessage is empty.
C15_ReadyHasNoFaultRecord ==
  currentState = "STATE_READY" => errorMessage = <<>>

\* The states a tick may leave a state for: the rows of the transition
\* table, the stages of one cycle being run by one tick, the failed
\* allocation of the capture buffer taken as a stage failure, and the
\* portal from everywhere.
TableSuccessors(s) ==
  {s, "STATE_WIFI_CONFIG"} \cup
  (CASE s = "STATE_WIFI_CONNECTING" -> {"STATE_WIFI_CONNECTED"}
     [] s = "STATE_WIFI_CONNECTED" -> {"STATE_READY"}
     [] s = "STATE_READY" -> {"STATE_RECORDING", "STATE_ERROR"}
     [] s = "STATE_RECORDING" -> {"STATE_PROCESSING_SPEECH", "STATE_QUERYING_AI",
                                  "STATE_PROCESSING_TTS", "STATE_PLAYING",
                                  "STATE_ERROR"}
     [] s = "STATE_PROCESSING_SPEECH" -> {"STATE_QUERYING_AI", "STATE_ERROR"}
     [] s = "STATE_QUERYING_AI" -> {"STATE_PROCESSING_TTS", "STATE_ERROR"}
     [] s = "STATE_PROCESSING_TTS" -> {"STATE_PLAYING", "STATE_ERROR"}
     [] s = "STATE_PLAYING" -> {"STATE_READY"}
     [] s = "STATE_ERROR" -> {"STATE_READY"}
     [] OTHER -> {})

\* C16: a tick leaves the state unchanged or for a successor the table
\* names, on the trigger the table names: the fault state is left for
\* STATE_READY only when the 5000 ms dwell since the fault has elapsed,
\* and the capture input moves no state but STATE_READY (a tick that ends
\* in a restart of the device apart).
C16_OnlyTableTransitions ==
  [][(Tick /\ pc' = "loop") =>
       /\ currentState' \in TableSuccessors(currentState)
       /\ (currentState = "STATE_ERROR" /\ currentState' = "STATE_READY")
            => sinceFault >= ERROR_DWELL_MS
       /\ (currentState' = "STATE_RECORDING" /\ currentState # "STATE_RECORDING")
            => (currentState = "STATE_READY" /\ buttonPin = "LOW")]_vars

\* C17: the text base64_encode gives for the bytes b is decoded by
\* base64_decode to exactly the bytes b.
C17_RoundTrip ==
  (codecPc = "decoded" /\ codecFrom = "encoded")
    => (Len(output) = Len(data) /\ output = data)

\* Bytes whose number is no multiple of 3 have been encoded and decoded.
C17_Witness ==
  /\ codecPc = "decoded" /\ codecFrom = "encoded"
  /\ Len(data) % 3 = 1 /\ Len(data) > 3
  /\ output = data

\* No pad character of t is followed by another character than a pad.
PadsOnlyAtEnd(t) ==
  \A k \in 1..Len(t) :
    t[k] = PadChar => \A j \in k..Len(t) : t[j] = PadChar

\* C18: for every split of the bytes in two parts, the texts of the two
\* successive calls of the encoder, put together, have no pad character
\* before the end and are the text of one call on all the bytes, and the
\* decoder gives the bytes back.
C18_ChunkBoundaryTransparent ==
  /\ codecPc = "chunked"
       => (PadsOnlyAtEnd(text) /\ text = Base64Encode(data))
  /\ (codecPc = "decoded" /\ codecFrom = "chunked") => output = data

\* C19: for every text of alphabet and pad characters, calculateDecodedSize
\* is the number of bytes base64_decode writes.
C19_SizeIsBytesWritten ==
  (codecPc = "decoded" /\ \A k \in 1..Len(text) :
                            (IsBase64(text[k]) \/ text[k] = PadChar))
    => CalculateDecodedSize(text) = Size32(Len(output))

\* t without the characters that are neither of the alphabet nor the pad.
Strip(t) == SelectSeq(t, LAMBDA c : IsBase64(c) \/ c = PadChar)

\* t is the text the encoder gives for some bytes.
IsEncoding(t) == Base64Encode(Base64Decode(t)) = t

\* C20: a text that is an encoding with characters outside the alphabet
\* put in anywhere is decoded to the bytes of the encoding (and so a last
\* group with one pad gives 2 bytes, with two pads 1 byte).
C20_SkipsOutsideAlphabet ==
  (codecPc = "decoded" /\ codecFrom = "text" /\ IsEncoding(Strip(text)))
    => output = Base64Decode(Strip(text))


\* C21: the orchestrator leaves STATE_WIFI_CONNECTING for the portal by the
\* join timeout only when at least JOIN_TIMEOUT_MS have passed since
\* connectToWiFi began the join, however long setup() took before it.
C21_JoinTimeoutFromJoinStart ==
  (currentState = "STATE_WIFI_CONFIG" /\ via = "timeout")
    => sinceJoinStart >= JOIN_TIMEOUT_MS


C23_DecodeAllocFailureFaults ==
  (\E k \in 1..Len(log) : log[k] = Ev("alloc", "decodedAudio", "null"))
    => /\ currentState \in {"STATE_ERROR", "STATE_WIFI_CONFIG"}
       /\ errorMessage # <<>>
       /\ \A k \in 1..Len(log) :
            /\ log[k] # Ev("decode", "decodedAudio", "null")
            /\ log[k] # Ev("play", "decodedAudio", "null")


\* C24: for every text, base64_decode writes at most as many bytes as
\* calculateDecodedSize gives for it, the size of the buffer its callers
\* allocate.
C24_DecodeWithinEstimate ==
  (codecPc = "decoded")
    => LET size == CalculateDecodedSize(text)
           written == Size32(Len(output))
       IN \/ written[1] < size[1]
          \/ (written[1] = size[1] /\ written[2] <= size[2])


\* What a tick in the portal leaves alone: currentState, the capture
\* buffer, the fault record, the statics of loop() and the events of the
\* cycle (no capture started, no request sent to a cloud stage).
PortalTickIdle ==
  UNCHANGED <<currentState, errorMessage, audioBuffer, isPlayingAudio,
              configButtonWasPressed, sinceConfigPress, sinceStateEnter,
              sinceRecordStart, log>>

\* C25 as stated: once currentState is STATE_WIFI_CONFIG a tick changes
\* nothing of the orchestrator unless it restarts the device, and after
\* the restart setup() leaves the orchestrator in STATE_WIFI_CONNECTING.
C25_PortalAbsorbingThenConnecting ==
  [][/\ (currentState = "STATE_WIFI_CONFIG" /\ Tick)
          => (PortalTickIdle \/ (Rebooting' /\ currentState' = "STATE_INIT"))
     /\ (restartOf = "portal" /\ Rebooting /\ pc' = "loop")
          => currentState' = "STATE_WIFI_CONNECTING"]_vars

\* C25, amended: once currentState is STATE_WIFI_CONFIG a tick changes
\* nothing of the orchestrator unless it restarts the device, and after
\* the restart setup() leaves the orchestrator in STATE_WIFI_CONNECTING,
\* or in the portal again when CONFIG_PIN is low at that boot.
C25_PortalAbsorbingUntilRestart ==
  [][/\ (currentState = "STATE_WIFI_CONFIG" /\ Tick)
          => (PortalTickIdle \/ (Rebooting' /\ currentState' = "STATE_INIT"))
     /\ (restartOf = "portal" /\ Rebooting /\ pc' = "loop")
          => currentState' = IF configPin = "LOW" THEN "STATE_WIFI_CONFIG"
                             ELSE "STATE_WIFI_CONNECTING"]_vars

\* The portal, entered by a long press with a capture in the buffer, has
\* been ticked.
C25_WitnessPortalTicked ==
  /\ currentState = "STATE_WIFI_CONFIG"
  /\ via = "longpress"
  /\ audioBuffer = "alloc"
  /\ portalTicks > 0

====
